---- MODULE Spec2Model ----
(***************************************************************************)
(* A model of github.com/ahui2016/goutil: NewID, GetFileContents,          *)
(* Sha256Hex, CreateFile, CreateReturnFile, DeleteFiles, WrapErrors,       *)
(* ErrorContains and NoCaseContains.                                       *)
(*                                                                         *)
(* Go strings are modelled as sequences of one-character strings, so that  *)
(* formatting, lower-casing, substring search and lexicographic comparison *)
(* are computed rather than assumed.                                       *)
(***************************************************************************)
EXTENDS Integers, Sequences, FiniteSets, TLC

VARIABLES now, ids, req, res, goos, fs, pre, ret, disk0, disk, procs, finished

vars == <<now, ids, req, res, goos, fs, pre, ret, disk0, disk, procs, finished>>

idVars == <<now, ids>>
ingestVars == <<req, res>>
fileVars == <<goos, fs, pre, ret>>
raceVars == <<disk0, disk, procs, finished>>

-----------------------------------------------------------------------------
(* Bounds of the model.                                                    *)

\* the clock runs over the seconds 0..MaxTime
MaxTime == 3
\* at most MaxCalls identifiers are generated in one behaviour
MaxCalls == 2
\* file contents and source streams hold at most MaxLen bytes
MaxLen == 2
\* byte values are 1..MaxByte
MaxByte == 2
\* DeleteFiles is called with at most MaxFiles paths
MaxFiles == 3
\* io.Copy moves at most ChunkLen bytes per Write call
ChunkLen == 1

-----------------------------------------------------------------------------
(* Strings.                                                                *)

Max(a, b) == IF a >= b THEN a ELSE b

Min(a, b) == IF a <= b THEN a ELSE b

\* the digits strconv uses for bases up to 36
Digits ==
  << "0","1","2","3","4","5","6","7","8","9",
     "a","b","c","d","e","f","g","h","i","j","k","l","m",
     "n","o","p","q","r","s","t","u","v","w","x","y","z" >>

UpperLetters ==
  << "A","B","C","D","E","F","G","H","I","J","K","L","M",
     "N","O","P","Q","R","S","T","U","V","W","X","Y","Z" >>

LowerLetters ==
  << "a","b","c","d","e","f","g","h","i","j","k","l","m",
     "n","o","p","q","r","s","t","u","v","w","x","y","z" >>

\* the lower-case letter of every upper-case letter
UpperToLower ==
  [c \in { UpperLetters[i] : i \in 1..26 } |->
     LowerLetters[CHOOSE i \in 1..26 : UpperLetters[i] = c]]

\* unicode.ToLower on one character
ToLowerChar(c) == IF c \in DOMAIN UpperToLower THEN UpperToLower[c] ELSE c

\* strings.ToLower
ToLower(s) == [i \in 1..Len(s) |-> ToLowerChar(s[i])]

\* strings.Contains
Contains(s, substr) ==
  \E i \in 0..(Len(s) - Len(substr)) : SubSeq(s, i + 1, i + Len(substr)) = substr

\* NoCaseContains reports whether substr is within s case-insensitive.
NoCaseContains(s, substr) == Contains(ToLower(s), ToLower(substr))

-----------------------------------------------------------------------------
(* Errors.                                                                 *)

\* a Go error value: nil, or an error with its Error() text
Nil == [isNil |-> TRUE, msg |-> <<>>]

NewError(text) == [isNil |-> FALSE, msg |-> text]

-----------------------------------------------------------------------------
(* The state each component starts from and, while another component is    *)
(* exercised, stays in.                                                    *)

\* no upload has been handled
NoRequest == [hasFile |-> FALSE, body |-> <<>>, readOk |-> TRUE, checksum |-> <<>>]

NoResult == [called |-> FALSE, contents |-> <<>>, hasContents |-> FALSE, err |-> Nil]

NoSource == [data |-> <<>>, ok |-> TRUE]

\* what a call left behind: the operation and its arguments, what it returned
\* (size, whether a *os.File came back, the error), the handles it opened that
\* are still open at its return, and the os.Remove calls it made
NoCall ==
  [op |-> "none", path |-> "a", src |-> NoSource, files |-> <<>>, size |-> 0,
   hasFile |-> FALSE, err |-> Nil, open |-> 0, removes |-> 0]

IdIdle == now = 0 /\ ids = <<>>

IngestIdle == req = NoRequest /\ res = NoResult

FilesIdle == goos = "linux" /\ fs = <<>> /\ pre = <<>> /\ ret = NoCall

RaceIdle == disk0 = <<>> /\ disk = <<>> /\ procs = <<>> /\ finished = <<>>

-----------------------------------------------------------------------------
(* NewID.                                                                  *)

\* var max int64 = 100_000_000
max == 100000000

\* the digits of a positive v in base 36, most significant first
RECURSIVE FormatBits(_, _)
FormatBits(v, base) ==
  IF v < base THEN << Digits[v + 1] >>
  ELSE Append(FormatBits(v \div base, base), Digits[(v % base) + 1])

\* FormatInt with the digits of v least significant first
RECURSIVE FormatIntBad(_, _)
FormatIntBad(v, base) ==
  IF v < base THEN << Digits[v + 1] >>
  ELSE << Digits[(v % base) + 1] >> \o FormatIntBad(v \div base, base)

\* strconv.FormatInt(v, base): no padding, a leading '-' for negatives
FormatInt(v, base) ==
  IF v < 0 THEN << "-" >> \o FormatBits(0 - v, base) ELSE FormatBits(v, base)

\* the values rand.Int(rand.Reader, big.NewInt(max)) is drawn from here: the
\* two ends of [0, max) and the values around the powers of 36 below max
RandDraws ==
  { 0, 1, 35, 36, 1295, 1296, 46655, 46656, 1679615, 1679616,
    60466175, 60466176, max - 1 }

\* the identifier's integer with the second not scaled at all
NewIDValueBad(timestamp, n) == timestamp + n

\* the identifier's integer with a scale below the range of the random part
NewIDValueSmallScale(timestamp, n) == timestamp * 36 + n

\* idInt64 := timestamp*max + n.Int64()

NewIDValue(timestamp, n) == timestamp * max + n

\* a call of NewID at clock second `now`; the model keeps what was returned
NewID ==
  /\ Len(ids) < MaxCalls
  /\ \E n \in RandDraws :
       LET idInt64 == NewIDValue(now, n)
       IN  ids' = Append(ids, [t |-> now, n |-> n, value |-> idInt64,
                               id |-> FormatInt(idInt64, 36)])
  /\ UNCHANGED << now, ingestVars, fileVars, raceVars >>

\* time.Now().Unix() moves on to the next second
Tick ==
  /\ now < MaxTime
  /\ now' = now + 1
  /\ UNCHANGED << ids, ingestVars, fileVars, raceVars >>

InitNewID ==
  /\ now = 0
  /\ ids = <<>>
  /\ IngestIdle /\ FilesIdle /\ RaceIdle

NextNewID == NewID \/ Tick

SpecNewID == InitNewID /\ [][NextNewID]_vars

-----------------------------------------------------------------------------
(* Claims about NewID.                                                     *)

\* the byte value of a character of an identifier ('-' 45, '0'..'9' 48..57,
\* 'a'..'z' 97..122); Go compares strings byte by byte
ByteOf(c) ==
  IF c = "-" THEN 45
  ELSE LET i == CHOOSE k \in 1..36 : Digits[k] = c
       IN  IF i <= 10 THEN 47 + i ELSE 86 + i

\* s < t for Go strings: bytewise lexicographic order
RECURSIVE StrLess(_, _)
StrLess(s, t) ==
  IF t = <<>> THEN FALSE
  ELSE IF s = <<>> THEN TRUE
  ELSE IF ByteOf(Head(s)) # ByteOf(Head(t)) THEN ByteOf(Head(s)) < ByteOf(Head(t))
  ELSE StrLess(Tail(s), Tail(t))

DigitValue(c) == (CHOOSE k \in 1..36 : Digits[k] = c) - 1

\* the integer an unsigned base-36 string denotes
RECURSIVE ParseBase36(_)
ParseBase36(s) ==
  IF s = <<>> THEN 0
  ELSE 36 * ParseBase36(SubSeq(s, 1, Len(s) - 1)) + DigitValue(s[Len(s)])

\* the pairs (earlier, later) of generated identifiers
IdPairs == { p \in (DOMAIN ids) \X (DOMAIN ids) : p[1] < p[2] }

SecondApart(p) == ids[p[2]].t >= ids[p[1]].t + 1

\* C7: of two identifiers generated at least one second apart, the later one
\* decodes to a strictly greater integer than the earlier one.
C7_OrderByValue ==
  \A p \in IdPairs :
    SecondApart(p) => ParseBase36(ids[p[2]].id) > ParseBase36(ids[p[1]].id)

\* C7 witness: two identifiers a second apart, the later with the smaller
\* random part.
C7_Witness ==
  \E p \in IdPairs : SecondApart(p) /\ ids[p[2]].n < ids[p[1]].n

\* C8 as stated: of two identifiers generated a second or more apart, the
\* later string never sorts below the earlier one, whatever their lengths.
C8_OrderByTextAlways ==
  \A p \in IdPairs : SecondApart(p) => ~StrLess(ids[p[2]].id, ids[p[1]].id)

\* C8 amended: of two identifiers generated a second or more apart, the later
\* string is at least as long as the earlier one, and when the two have the
\* same length the later one sorts strictly above the earlier one.
C8_OrderByTextSameLength ==
  \A p \in IdPairs :
    SecondApart(p) =>
      /\ Len(ids[p[2]].id) >= Len(ids[p[1]].id)
      /\ Len(ids[p[2]].id) = Len(ids[p[1]].id) => StrLess(ids[p[1]].id, ids[p[2]].id)

\* C8 witness: two identifiers a second apart, of the same length, the later
\* with the smaller random part.
C8_Witness ==
  \E p \in IdPairs :
    /\ SecondApart(p)
    /\ Len(ids[p[2]].id) = Len(ids[p[1]].id)
    /\ ids[p[2]].n < ids[p[1]].n

\* C9 as stated: no two returned identifiers are ever equal.
C9_AlwaysUnique ==
  \A p \in IdPairs : ids[p[1]].id # ids[p[2]].id

\* C9 amended: two returned identifiers are equal exactly when they were
\* generated in the same clock second with the same random draw; identifiers
\* of different seconds are never equal.
C9_UniqueAcrossSeconds ==
  \A p \in IdPairs :
    (ids[p[1]].id = ids[p[2]].id) <=>
      (ids[p[1]].t = ids[p[2]].t /\ ids[p[1]].n = ids[p[2]].n)

\* C9 witness: two calls within the same second that drew different numbers
\* and returned different identifiers.
C9_Witness ==
  \E p \in IdPairs :
    /\ ids[p[1]].t = ids[p[2]].t /\ ids[p[1]].n # ids[p[2]].n
    /\ ids[p[1]].id # ids[p[2]].id

-----------------------------------------------------------------------------
(* GetFileContents and Sha256Hex.                                          *)

Byte == 1..MaxByte

\* the byte strings of at most MaxLen bytes
RECURSIVE BytesUpTo(_)
BytesUpTo(n) ==
  IF n = 0 THEN { <<>> }
  ELSE LET shorter == BytesUpTo(n - 1)
       IN  shorter \cup { Append(s, b) : s \in { x \in shorter : Len(x) = n - 1 }, b \in Byte }

Bytes == BytesUpTo(MaxLen)

\* sha256.Sum256(data), cut down to a digest of one byte: a stand-in that
\* mixes every byte and the length of the data (collisions exist, as they do
\* in principle for SHA-256; nothing below relies on their absence)
RECURSIVE Sum256(_)
Sum256(data) ==
  IF data = <<>> THEN << 227 >>
  ELSE << (Sum256(SubSeq(data, 1, Len(data) - 1))[1] * 33 + data[Len(data)] + 176) % 256 >>

\* hex.EncodeToString: two lowercase hexadecimal digits per byte
RECURSIVE EncodeToString(_)
EncodeToString(b) ==
  IF b = <<>> THEN <<>>
  ELSE << Digits[(Head(b) \div 16) + 1], Digits[(Head(b) % 16) + 1] >>
         \o EncodeToString(Tail(b))

\* Sha256Hex
Sha256Hex(data) == EncodeToString(Sum256(data))

LowerToUpper ==
  [c \in { LowerLetters[i] : i \in 1..26 } |->
     UpperLetters[CHOOSE i \in 1..26 : LowerLetters[i] = c]]

ToUpperChar(c) == IF c \in DOMAIN LowerToUpper THEN LowerToUpper[c] ELSE c

ToUpper(s) == [i \in 1..Len(s) |-> ToUpperChar(s[i])]

\* r.FormValue("checksum"): absent (""), the digest of some content, or such a
\* digest typed in upper case
Checksums ==
  { <<>> } \cup { Sha256Hex(b) : b \in Bytes } \cup { ToUpper(Sha256Hex(b)) : b \in Bytes }

\* an upload: whether the form has a "file" part, the bytes the part delivers,
\* whether reading it ends in EOF (readOk) or in an error after those bytes,
\* and the "checksum" form value
Requests ==
  [hasFile : BOOLEAN, body : Bytes, readOk : BOOLEAN, checksum : Checksums]

\* http.ErrMissingFile
ErrMissingFile == NewError(<< "h", "t", "t", "p", ":", " ", "n", "o", " ", "s", "u", "c", "h", " ", "f", "i", "l", "e" >>)

\* the error of a read that breaks off
ErrUnexpectedEOF == NewError(<< "u", "n", "e", "x", "p", "e", "c", "t", "e", "d", " ", "E", "O", "F" >>)

\* errors.New("checksums do not match")
ErrChecksum == NewError(<< "c", "h", "e", "c", "k", "s", "u", "m", "s", " ", "d", "o", " ", "n", "o", "t", " ", "m", "a", "t", "c", "h" >>)

Returned(contents, hasContents, err) ==
  [called |-> TRUE, contents |-> contents, hasContents |-> hasContents, err |-> err]

\* GetFileContents with the checksum compared case-insensitively
GetFileContentsLax(r) ==
  IF ~r.hasFile THEN Returned(<<>>, FALSE, ErrMissingFile)
  ELSE IF ~r.readOk THEN Returned(<<>>, FALSE, ErrUnexpectedEOF)
  ELSE IF ToLower(Sha256Hex(r.body)) # ToLower(r.checksum)
    THEN Returned(<<>>, FALSE, ErrChecksum)
  ELSE Returned(r.body, TRUE, Nil)

\* GetFileContents: what it returns for the request r
GetFileContentsOf(r) ==
  IF ~r.hasFile THEN Returned(<<>>, FALSE, ErrMissingFile)
  ELSE IF ~r.readOk THEN Returned(<<>>, FALSE, ErrUnexpectedEOF)
  ELSE IF Sha256Hex(r.body) # r.checksum THEN Returned(<<>>, FALSE, ErrChecksum)
  ELSE Returned(r.body, TRUE, Nil)

\* the handler runs once on the request it was given
GetFileContents ==
  /\ ~res.called
  /\ res' = GetFileContentsOf(req)
  /\ UNCHANGED << idVars, req, fileVars, raceVars >>

InitIngest ==
  /\ req \in Requests
  /\ res = NoResult
  /\ IdIdle /\ FilesIdle /\ RaceIdle

NextIngest == GetFileContents

SpecIngest == InitIngest /\ [][NextIngest]_vars

-----------------------------------------------------------------------------
(* Claims about GetFileContents.                                           *)

\* C4: GetFileContents returns a buffer only when the digest of everything
\* read equals the checksum form value exactly, and then the buffer is what
\* was read; a mismatch gives the integrity error and no buffer, a failed
\* read gives the read error and no buffer.
C4_FailsClosed ==
  res.called =>
    /\ res.hasContents =>
         /\ req.hasFile /\ req.readOk
         /\ Sha256Hex(req.body) = req.checksum
         /\ res.contents = req.body
         /\ res.err = Nil
    /\ (req.hasFile /\ req.readOk /\ Sha256Hex(req.body) # req.checksum) =>
         /\ ~res.hasContents /\ res.contents = <<>>
         /\ res.err = ErrChecksum
    /\ (req.hasFile /\ ~req.readOk) =>
         /\ ~res.hasContents /\ res.contents = <<>>
         /\ res.err = ErrUnexpectedEOF
    /\ ~res.hasContents => ~res.err.isNil

\* C4 witness: an upload of some bytes whose checksum differs from the digest
\* only in the case of its letters is rejected with the integrity error.
C4_Witness ==
  /\ res.called /\ req.hasFile /\ req.readOk /\ req.body # <<>>
  /\ req.checksum # Sha256Hex(req.body)
  /\ ToLower(req.checksum) = Sha256Hex(req.body)
  /\ res.err = ErrChecksum /\ ~res.hasContents

-----------------------------------------------------------------------------
(* The file system under os.OpenFile, io.Copy and os.Remove.               *)

Paths == { "a", "b", "c" }

\* what a path holds: nothing, a regular file with its bytes, a non-empty
\* directory, or an entry the process has no permission to open or unlink
Absent == [kind |-> "absent", data |-> <<>>]

File(data) == [kind |-> "file", data |-> data]

Dir == [kind |-> "dir", data |-> <<>>]

Denied == [kind |-> "denied", data |-> <<>>]

\* syscall.Errno.Error() for the error numbers met here, on Unix and on Windows
ErrnoText(os, errno) ==
  IF os = "windows"
    THEN CASE errno = "ENOENT" -> << "T", "h", "e", " ", "s", "y", "s", "t", "e", "m", " ", "c", "a", "n", "n", "o", "t", " ", "f", "i", "n", "d", " ", "t", "h", "e", " ", "f", "i", "l", "e", " ", "s", "p", "e", "c", "i", "f", "i", "e", "d", "." >>
           [] errno = "EACCES" -> << "A", "c", "c", "e", "s", "s", " ", "i", "s", " ", "d", "e", "n", "i", "e", "d", "." >>
           [] errno = "ENOTEMPTY" -> << "T", "h", "e", " ", "d", "i", "r", "e", "c", "t", "o", "r", "y", " ", "i", "s", " ", "n", "o", "t", " ", "e", "m", "p", "t", "y", "." >>
           [] errno = "EISDIR" -> << "i", "s", " ", "a", " ", "d", "i", "r", "e", "c", "t", "o", "r", "y" >>
    ELSE CASE errno = "ENOENT" -> << "n", "o", " ", "s", "u", "c", "h", " ", "f", "i", "l", "e", " ", "o", "r", " ", "d", "i", "r", "e", "c", "t", "o", "r", "y" >>
           [] errno = "EACCES" -> << "p", "e", "r", "m", "i", "s", "s", "i", "o", "n", " ", "d", "e", "n", "i", "e", "d" >>
           [] errno = "ENOTEMPTY" -> << "d", "i", "r", "e", "c", "t", "o", "r", "y", " ", "n", "o", "t", " ", "e", "m", "p", "t", "y" >>
           [] errno = "EISDIR" -> << "i", "s", " ", "a", " ", "d", "i", "r", "e", "c", "t", "o", "r", "y" >>

\* (*os.PathError).Error(): Op + " " + Path + ": " + Err.Error()
PathError(os, op, path, errno) ==
  NewError(op \o << " ", path, ":", " " >> \o ErrnoText(os, errno))

\* os.Remove(name): the entry afterwards and the error
OsRemove(os, entry, name) ==
  CASE entry.kind = "file" -> [entry |-> Absent, err |-> Nil]
    [] entry.kind = "absent" ->
         [entry |-> entry, err |-> PathError(os, << "r", "e", "m", "o", "v", "e" >>, name, "ENOENT")]
    [] entry.kind = "dir" ->
         [entry |-> entry, err |-> PathError(os, << "r", "e", "m", "o", "v", "e" >>, name, "ENOTEMPTY")]
    [] entry.kind = "denied" ->
         [entry |-> entry, err |-> PathError(os, << "r", "e", "m", "o", "v", "e" >>, name, "EACCES")]

\* os.OpenFile(name, os.O_RDWR|os.O_CREATE, 0600): the entry afterwards and the
\* error; an absent file is created empty, an existing file is opened as it
\* is (the flags hold no O_TRUNC), the handle's offset is 0
OsOpenFile(os, entry, name) ==
  CASE entry.kind = "file" -> [entry |-> entry, err |-> Nil]
    [] entry.kind = "absent" -> [entry |-> File(<<>>), err |-> Nil]
    [] entry.kind = "dir" ->
         [entry |-> entry, err |-> PathError(os, << "o", "p", "e", "n" >>, name, "EISDIR")]
    [] entry.kind = "denied" ->
         [entry |-> entry, err |-> PathError(os, << "o", "p", "e", "n" >>, name, "EACCES")]

\* a Write that appends b to the file whatever the handle's offset
WriteAtAppend(data, off, b) == data \o b

\* (*os.File).Write of the bytes b at the handle's offset off: the bytes under
\* them are replaced, the bytes beyond them stay
WriteAt(data, off, b) ==
  [i \in 1..Max(Len(data), off + Len(b)) |->
     IF i > off /\ i <= off + Len(b) THEN b[i - off] ELSE data[i]]

\* a source stream: the bytes it delivers, and whether it then ends in EOF
\* (ok) or in a read error
Sources == [data : Bytes, ok : BOOLEAN]

-----------------------------------------------------------------------------
(* CreateReturnFile and CreateFile.                                        *)

\* CreateReturnFile(filePath, src) on the file system f: the file system
\* afterwards, the three results, and the handles left open
CreateReturnFileOf(os, f, filePath, src) ==
  LET opened == OsOpenFile(os, f[filePath], filePath)
  IN  IF ~opened.err.isNil
        THEN [fs |-> f, size |-> 0, hasFile |-> FALSE, err |-> opened.err, open |-> 0]
        ELSE LET written == [f EXCEPT ![filePath] =
                                File(WriteAt(opened.entry.data, 0, src.data))]
             IN  IF ~src.ok
                   THEN [fs |-> written, size |-> 0, hasFile |-> FALSE,
                         err |-> ErrUnexpectedEOF, open |-> 1]
                   ELSE [fs |-> written, size |-> Len(src.data), hasFile |-> TRUE,
                         err |-> Nil, open |-> 1]

\* CreateFile(filePath, src): file.Close() when err == nil
CreateFileOf(os, f, filePath, src) ==
  LET r == CreateReturnFileOf(os, f, filePath, src)
  IN  IF r.err.isNil
        THEN [r EXCEPT !.hasFile = FALSE, !.open = r.open - 1]
        ELSE [r EXCEPT !.hasFile = FALSE]

\* one call on the file system the behaviour started with; ret and pre keep
\* what the call was given, what it returned and what it found
CreateReturnFile ==
  /\ ret.op = "none"
  /\ \E filePath \in Paths, src \in Sources :
       LET r == CreateReturnFileOf(goos, fs, filePath, src)
       IN  /\ fs' = r.fs
           /\ ret' = [NoCall EXCEPT !.op = "CreateReturnFile", !.path = filePath,
                        !.src = src, !.size = r.size, !.hasFile = r.hasFile,
                        !.err = r.err, !.open = r.open]
  /\ pre' = fs
  /\ UNCHANGED << idVars, ingestVars, goos, raceVars >>

\* likewise one call of CreateFile
CreateFile ==
  /\ ret.op = "none"
  /\ \E filePath \in Paths, src \in Sources :
       LET r == CreateFileOf(goos, fs, filePath, src)
       IN  /\ fs' = r.fs
           /\ ret' = [NoCall EXCEPT !.op = "CreateFile", !.path = filePath,
                        !.src = src, !.err = r.err, !.open = r.open]
  /\ pre' = fs
  /\ UNCHANGED << idVars, ingestVars, goos, raceVars >>

Entries == { Absent, Dir, Denied } \cup { File(d) : d \in Bytes }

InitCreate ==
  /\ goos \in { "linux", "windows" }
  /\ fs \in [Paths -> Entries]
  /\ pre = fs
  /\ ret = NoCall
  /\ IdIdle /\ IngestIdle /\ RaceIdle

NextCreate == CreateReturnFile \/ CreateFile

SpecCreate == InitCreate /\ [][NextCreate]_vars

-----------------------------------------------------------------------------
(* Claims about CreateReturnFile and CreateFile.                           *)

\* C1: after a successful CreateReturnFile or CreateFile on a path that held
\* data, the file holds exactly the source bytes and the size returned is the
\* source length.
C1_OverwritesEntirely ==
  (/\ ret.op \in { "CreateReturnFile", "CreateFile" }
   /\ ret.err.isNil
   /\ pre[ret.path].kind = "file" /\ pre[ret.path].data # <<>>)
  => /\ fs[ret.path] = File(ret.src.data)
     /\ ret.op = "CreateReturnFile" => ret.size = Len(ret.src.data)

\* C5: when CreateFile has returned, with nil or with an error, no handle the
\* call opened is still open.
C5_HandleReleased ==
  ret.op = "CreateFile" => ret.open = 0

-----------------------------------------------------------------------------
(* DeleteFiles, WrapErrors and ErrorContains.                              *)

\* ErrorContains returns NoCaseContains(err.Error(), substr);
\* false if err is nil
ErrorContains(err, substr) ==
  IF err.isNil THEN FALSE ELSE NoCaseContains(err.msg, substr)

\* the test of DeleteFiles that lets an error pass as "file not found", with
\* only the Windows wording
IsNotFoundWindowsOnly(err) == ErrorContains(err, << "c", "a", "n", "n", "o", "t", " ", "f", "i", "n", "d" >>)

\* the test of DeleteFiles that lets an error pass as "file not found"
IsNotFound(err) ==
  \/ ErrorContains(err, << "c", "a", "n", "n", "o", "t", " ", "f", "i", "n", "d" >>)
  \/ ErrorContains(err, << "n", "o", " ", "s", "u", "c", "h", " ", "f", "i", "l", "e" >>)

\* the loop of DeleteFiles from files[i] on: the file system afterwards, the
\* error returned and the number of os.Remove calls made
RECURSIVE DeleteLoop(_, _, _, _)
DeleteLoop(os, f, files, i) ==
  IF i > Len(files) THEN [fs |-> f, err |-> Nil, removes |-> i - 1]
  ELSE LET r == OsRemove(os, f[files[i]], files[i])
           g == [f EXCEPT ![files[i]] = r.entry]
       IN  IF ~r.err.isNil
             THEN IF IsNotFound(r.err)
                    THEN DeleteLoop(os, g, files, i + 1)
                    ELSE [fs |-> g, err |-> r.err, removes |-> i]
             ELSE DeleteLoop(os, g, files, i + 1)

\* DeleteFiles(files...)
DeleteFilesOf(os, f, files) == DeleteLoop(os, f, files, 1)

\* fmt.Errorf("%v | %v", err, wrapped)
Errorf(err, wrapped) == NewError(err.msg \o << " ", "|", " " >> \o wrapped.msg)

\* WrapErrors(allErrors...): the non-nil errors joined, the latest first
RECURSIVE WrapErrors(_)
WrapErrors(allErrors) ==
  IF allErrors = <<>> THEN Nil
  ELSE LET wrapped == WrapErrors(SubSeq(allErrors, 1, Len(allErrors) - 1))
           err == allErrors[Len(allErrors)]
       IN  IF err.isNil THEN wrapped
           ELSE IF wrapped.isNil THEN err
           ELSE Errorf(err, wrapped)

\* the argument lists of at most MaxFiles paths
RECURSIVE PathLists(_)
PathLists(n) ==
  IF n = 0 THEN { <<>> }
  ELSE LET shorter == PathLists(n - 1)
       IN  shorter \cup { Append(l, p) : l \in { x \in shorter : Len(x) = n - 1 }, p \in Paths }

\* one call of DeleteFiles on the file system the behaviour started with
DeleteFiles ==
  /\ ret.op = "none"
  /\ \E files \in PathLists(MaxFiles) :
       LET r == DeleteFilesOf(goos, fs, files)
       IN  /\ fs' = r.fs
           /\ ret' = [NoCall EXCEPT !.op = "DeleteFiles", !.files = files,
                        !.err = r.err, !.removes = r.removes]
  /\ pre' = fs
  /\ UNCHANGED << idVars, ingestVars, goos, raceVars >>

\* the entries DeleteFiles meets: what a file holds plays no part in removing it
RemovalEntries == { Absent, Dir, Denied, File(<<>>), File(<< 1 >>) }

InitDelete ==
  /\ goos \in { "linux", "windows" }
  /\ fs \in [Paths -> RemovalEntries]
  /\ pre = fs
  /\ ret = NoCall
  /\ IdIdle /\ IngestIdle /\ RaceIdle

NextDelete == DeleteFiles

SpecDelete == InitDelete /\ [][NextDelete]_vars

-----------------------------------------------------------------------------
(* Claims about DeleteFiles.                                               *)

Listed(files) == { files[i] : i \in DOMAIN files }

\* the removal of every path of the list in turn, whatever fails: the file
\* system afterwards and the errors met that are not "not found", in order
RECURSIVE RemoveEach(_, _, _, _)
RemoveEach(os, f, files, i) ==
  IF i > Len(files) THEN [fs |-> f, failures |-> <<>>]
  ELSE LET r == OsRemove(os, f[files[i]], files[i])
           rest == RemoveEach(os, [f EXCEPT ![files[i]] = r.entry], files, i + 1)
       IN  IF r.err.isNil \/ f[files[i]].kind = "absent"
             THEN rest
             ELSE [rest EXCEPT !.failures = << r.err >> \o rest.failures]

\* C2: DeleteFiles calls os.Remove on every path of its list, also after a
\* failure that is not "not found", so that every removable path of the list
\* is absent afterwards.
C2_RemovesEveryPath ==
  ret.op = "DeleteFiles" =>
    /\ ret.removes = Len(ret.files)
    /\ \A p \in Listed(ret.files) : pre[p].kind = "file" => fs[p].kind = "absent"

\* C3: the error DeleteFiles returns joins the messages of all the failures
\* that are not "not found", the latest first, and is nil exactly when there
\* was none.
C3_AllFailuresChained ==
  ret.op = "DeleteFiles" =>
    LET failures == RemoveEach(goos, pre, ret.files, 1).failures
    IN  /\ ret.err = WrapErrors(failures)
        /\ ret.err.isNil <=> failures = <<>>

\* C6: on a list whose paths each hold a removable file or nothing,
\* DeleteFiles returns nil and leaves every listed path absent and every other
\* path as it was; DeleteFiles on the same list again returns nil and changes
\* nothing.
C6_NotFoundIsSuccess ==
  (/\ ret.op = "DeleteFiles"
   /\ \A p \in Listed(ret.files) : pre[p].kind \in { "file", "absent" })
  => /\ ret.err = Nil
     /\ \A p \in Listed(ret.files) : fs[p] = Absent
     /\ \A p \in Paths \ Listed(ret.files) : fs[p] = pre[p]
     /\ LET again == DeleteFilesOf(goos, fs, ret.files)
        IN  again.err = Nil /\ again.fs = fs /\ again.removes = Len(ret.files)

\* C6 witness: a list of an existing file, a missing path and another
\* existing file has been deleted.
C6_Witness ==
  /\ ret.op = "DeleteFiles" /\ Len(ret.files) = 3
  /\ pre[ret.files[1]].kind = "file"
  /\ pre[ret.files[2]].kind = "absent"
  /\ pre[ret.files[3]].kind = "file"
  /\ ret.files[1] # ret.files[3]
  /\ ret.err = Nil

-----------------------------------------------------------------------------
(* Two calls of CreateReturnFile on one path, step by step.                *)

\* the two callers
Procs == { 1, 2 }

Other(p) == 3 - p

\* the path both calls are given
SharedPath == "a"

\* the source of caller p, n bytes long: its k-th byte is 10*p + k, so that
\* every byte of the file tells which source and which position it came from
RaceData(p, n) == [k \in 1..n |-> 10 * p + k]

RaceSources(p) == { [data |-> RaceData(p, n), ok |-> b] : n \in 0..MaxLen, b \in BOOLEAN }

\* what the path holds before the calls; the bytes of a file there are 1, 2, ...
RaceEntries == { Absent, Dir, Denied } \cup { File([k \in 1..n |-> k]) : n \in 0..MaxLen }

\* f, err := os.OpenFile(filePath, os.O_RDWR|os.O_CREATE, 0600)
Open(p) ==
  /\ procs[p].pc = "open"
  /\ LET opened == OsOpenFile(goos, disk, SharedPath)
     IN  IF opened.err.isNil
           THEN /\ disk' = opened.entry
                /\ procs' = [procs EXCEPT ![p].pc = "copy", ![p].off = 0,
                               ![p].alone = (procs[Other(p)].pc \in { "done", "failed" })]
           ELSE /\ procs' = [procs EXCEPT ![p].pc = "failed"]
                /\ UNCHANGED disk
  /\ UNCHANGED << idVars, ingestVars, fileVars, disk0, finished >>

\* io.Copy(f, src): one Read of at most ChunkLen bytes and the Write of them
Copy(p) ==
  /\ procs[p].pc = "copy"
  /\ procs[p].off < Len(procs[p].src.data)
  /\ LET data == procs[p].src.data
         n == Min(ChunkLen, Len(data) - procs[p].off)
         chunk == SubSeq(data, procs[p].off + 1, procs[p].off + n)
     IN  /\ disk' = File(WriteAt(disk.data, procs[p].off, chunk))
         /\ procs' = [procs EXCEPT ![p].off = procs[p].off + n]
  /\ UNCHANGED << idVars, ingestVars, fileVars, disk0, finished >>

\* the Read that ends the copy, with EOF or with an error, and the return
Return(p) ==
  /\ procs[p].pc = "copy"
  /\ procs[p].off = Len(procs[p].src.data)
  /\ IF procs[p].src.ok
       THEN /\ procs' = [procs EXCEPT ![p].pc = "done"]
            /\ finished' = Append(finished, p)
       ELSE /\ procs' = [procs EXCEPT ![p].pc = "failed"]
            /\ UNCHANGED finished
  /\ UNCHANGED << idVars, ingestVars, fileVars, disk0, disk >>

InitRace ==
  /\ disk0 \in RaceEntries
  /\ disk = disk0
  /\ procs \in { [p \in Procs |-> [pc |-> "open", src |-> f[p], off |-> 0, alone |-> FALSE]] :
                   f \in { g \in [Procs -> UNION { RaceSources(p) : p \in Procs }] :
                             \A p \in Procs : g[p] \in RaceSources(p) } }
  /\ finished = <<>>
  /\ IdIdle /\ IngestIdle /\ FilesIdle

NextRace == \E p \in Procs : Open(p) \/ Copy(p) \/ Return(p)

SpecRace == InitRace /\ [][NextRace]_vars

-----------------------------------------------------------------------------
(* Claims about concurrent calls.                                          *)

BothDone == \A p \in Procs : procs[p].pc = "done"

====
